---- MODULE Spec2Model ----
(***************************************************************************)
(* Model of silx/gui/plot/CurvesROIWidget.py: the ROI objects, the         *)
(* ROITable widget (its two name-keyed mappings, its rows, its selection)  *)
(* and the part of the host plot the table reads and writes (the active    *)
(* curve and the x markers).                                               *)
(*                                                                         *)
(* ROI objects are Python objects shared by reference: they live in        *)
(* `heap` and are named by their index.  A Python exception ends the       *)
(* operation at the statement that raises it; the assignments made before  *)
(* that statement stay, and `last.err` records the exception.              *)
(***************************************************************************)
EXTENDS Integers, Sequences, FiniteSets, TLC

VARIABLES
    heap,          \* the ROI objects of the client code (Seq of ROI records)
    plot,          \* ROITable.plot: "plot" or "None"
    activeCurve,   \* the plot's active curve: index in Curves, 0 when none
    markers,       \* the plot's x markers: legend -> x position
    roidict,       \* ROITable.roidict: name -> ROI object (heap index)
    RoiToItems,    \* ROITable._RoiToItems: name -> 'ROI' item of the row
    rows,          \* the table's rows: 'ROI' item -> texts of the row's cells
    selected,      \* the rows holding selected items
    current,       \* the row of the table's current index, 0 when invalid
    activeRoi,     \* ROITable.activeRoi: heap index, 0 for None
    showAll,       \* ROITable._showAllMarkers
    middleFlag,    \* ROITable._middleROIMarkerFlag
    file,          \* the ROI document stored under the file name
    last,          \* the last operation: its name, its argument and its exception
    views,         \* CompositeDataView.__views: the registered views, in order
    currentView,   \* CompositeDataView.__currentView: index in views, 0 for None
    stacked,       \* the composite's QStackedWidget: None before getWidget
    vlast,         \* the last call on a view: its arguments, result, exception
    loader         \* the PluginLoader, sys.modules and the loader's last call

roiVars == <<heap, plot, activeCurve, markers, roidict, RoiToItems, rows,
             selected, current, activeRoi, showAll, middleFlag, file, last>>

viewVars == <<views, currentView, stacked, vlast>>

vars == <<heap, plot, activeCurve, markers, roidict, RoiToItems, rows,
          selected, current, activeRoi, showAll, middleFlag, file, last,
          views, currentView, stacked, vlast, loader>>

-----------------------------------------------------------------------------
(* Bounds of the model *)

MaxRows == 2
MaxViews == 2
MaxObjects == 6                  \* the ROI objects ever constructed

RoiNames == {"ICR", "newroi 1"}
UnknownName == "nosuchroi"
Windows == {<<1, 3>>, <<2, 2>>}
Curves == << [x |-> <<0, 1, 2, 3, 4>>, y |-> <<0, 1, 4, 1, 0>>] >>
Orders == {"None", "from", "to", "type"}
OrderArgs == Orders \cup {"name"}

\* the documents the file may hold: the 'roidict' of the 'ROI' section
Documents ==
    { {[name |-> "newroi 1", type |-> "Default", from |-> 1, to |-> 3,
        rawcounts |-> 6, netcounts |-> 3]} }

-----------------------------------------------------------------------------
(* Python values *)

None == {}                       \* an optional number is {} or {n}
Some(n) == {n}
INFO_NOT_FOUND == "????????"
NoItem == "<no item>"            \* a cell that has no QTableWidgetItem yet

\* str(v) if v is not None else INFO_NOT_FOUND
strOrNotFound(v) ==
    IF v = None THEN INFO_NOT_FOUND ELSE ToString(CHOOSE n \in v : TRUE)

\* d[k] = v on a dict
Put(d, k, v) == [n \in DOMAIN d \cup {k} |-> IF n = k THEN v ELSE d[n]]
\* del d[k] on a dict
Del(d, k) == [n \in DOMAIN d \ {k} |-> d[n]]
EmptyDict == [n \in {} |-> 0]

\* ROI.__init__
newROI(name, fromdata, todata) ==
    [name |-> name, fromdata |-> fromdata, todata |-> todata,
     draggable |-> FALSE, color |-> "blue", type |-> "Default",
     rawCounts |-> None, netCounts |-> None, connected |-> FALSE]

\* ROI.toDict
toDict(roi) ==
    [type |-> roi.type, name |-> roi.name, from |-> roi.fromdata, to |-> roi.todata]

\* the ROI objects the client code has constructed: roi = ROI(name, from, to)
\* CurvesROIWidget._add on a ROI it has constructed: the ROI named 'ICR' is not
\* draggable, every other ROI is
addButtonROI(roi) == [roi EXCEPT !.draggable = (roi.name # "ICR")]

InitialRois == << addButtonROI(newROI("ICR", 1, 3)), addButtonROI(newROI("newroi 1", 2, 2)) >>
RoiIds == 1..Len(InitialRois)

-----------------------------------------------------------------------------
(* The plot's markers *)

\* plot.addXMarker(x, legend=legend): a marker of the same legend is replaced
addXMarker(mk, legend, x) == Put(mk, legend, x)
\* plot.remove(legend, kind='marker'): silent when there is no such marker
removeMarker(mk, legend) == Del(mk, legend)

nameRoiMin(name) == name \o " ROI min"
nameRoiMax(name) == name \o " ROI max"

-----------------------------------------------------------------------------
(* ROITable._computeRawAndNetCounts *)

RECURSIVE insertSorted(_, _, _)
\* index i put in the sorted index list s behind every index whose x is <= x[i]
insertSorted(x, s, i) ==
    IF s = <<>> THEN <<i>>
    ELSE IF x[Head(s)] <= x[i] THEN <<Head(s)>> \o insertSorted(x, Tail(s), i)
    ELSE <<i>> \o s

RECURSIVE argsortUpTo(_, _)
argsortUpTo(x, n) ==
    IF n = 0 THEN <<>> ELSE insertSorted(x, argsortUpTo(x, n - 1), n)

\* numpy.argsort(x, kind='mergesort'): a stable sort, as 1-based indices
argsort(x) == argsortUpTo(x, Len(x))

\* numpy.take(a, idx)
take(a, idx) == [k \in 1..Len(idx) |-> a[idx[k]]]

RECURSIVE sumSeq(_)
sumSeq(s) == IF s = <<>> THEN 0 ELSE Head(s) + sumSeq(Tail(s))

\* the statements behind the ICR test: the window, the raw counts and the net
\* counts; a float quotient is kept as the pair <<numerator, denominator>>
windowCounts(xproc, yproc, fromdata, todata) ==
    LET all == [k \in 1..Len(xproc) |-> k]
        idx == SelectSeq(all, LAMBDA k : fromdata <= xproc[k] /\ xproc[k] <= todata)
    IN  IF Len(idx) > 0
        THEN LET xw == take(xproc, idx)
                 yw == take(yproc, idx)
                 rawCounts == sumSeq(yw)
                 deltaX == xw[Len(xw)] - xw[1]
                 deltaY == yw[Len(yw)] - yw[1]
             IN  IF deltaX > 0
                 THEN \* background[k] = yw[1] + (deltaY / deltaX) * (xw[k] - xw[1])
                      LET backgroundNum ==
                              [k \in 1..Len(xw) |-> yw[1] * deltaX + deltaY * (xw[k] - xw[1])]
                      IN  [raw |-> Some(rawCounts),
                           net |-> Some(<<rawCounts * deltaX - sumSeq(backgroundNum), deltaX>>)]
                 ELSE [raw |-> Some(rawCounts), net |-> Some(<<0, 1>>)]
        ELSE [raw |-> Some(0), net |-> Some(<<0, 1>>)]

\* the name `roiName` read by the ICR test of _computeRawAndNetCounts: the
\* function has the parameters self and roi only, and the module has no global
\* of that name, so the read raises NameError
roiNameIsBound == FALSE

\* _computeRawAndNetCounts(roi) for the ROI object hp[id]
computeRawAndNetCounts(hp, id, plt, curve) ==
    IF plt = "None" THEN [err |-> "none", raw |-> None, net |-> None]
    ELSE IF curve = 0 THEN [err |-> "none", raw |-> None, net |-> None]
    ELSE LET x == Curves[curve].x
             y == Curves[curve].y
             idx == argsort(x)
             xproc == take(x, idx)
             yproc == take(y, idx)
         IN  IF ~roiNameIsBound
             THEN [err |-> "NameError", raw |-> None, net |-> None]
             ELSE LET c == windowCounts(xproc, yproc, hp[id].fromdata, hp[id].todata)
                  IN  [err |-> "none", raw |-> c.raw, net |-> c.net]

-----------------------------------------------------------------------------
(* The table's rows *)

\* setRowCount(n + 1) and the 'ROI' item _getItem creates in the new row
newRow(name) ==
    [ROI |-> name, Type |-> NoItem, From |-> NoItem, To |-> NoItem,
     Raw |-> NoItem, Net |-> NoItem]

\* the identity of a QTableWidgetItem created now: one no row of the table uses
newItem(rws) == CHOOSE i \in 1..(Cardinality(DOMAIN rws) + 1) : i \notin DOMAIN rws

\* roi.type or INFO_NOT_FOUND
typeText(roi) == IF roi.type = "" THEN INFO_NOT_FOUND ELSE roi.type

\* the text _updateRoiInfo gives the 'Raw Counts' and 'Net Counts' items: the
\* result of _computeRawAndNetCounts is dropped and the ROI's own _rawCounts
\* and _netCounts are shown
rawText(roi, counts) == strOrNotFound(roi.rawCounts)
netText(roi, counts) == strOrNotFound(roi.netCounts)

\* ROITable._updateRoiInfo(roiName)
updateRoiInfo(roiName, hp, dict, items, rws, plt, curve) ==
    IF roiName \notin DOMAIN dict THEN [rows |-> rws, err |-> "none"]
    ELSE LET roi == hp[dict[roiName]] IN
         IF roi.name \notin DOMAIN items
         THEN [rows |-> rws, err |-> "AssertionError"]
         ELSE LET it == items[roi.name]
                  r1 == [rws EXCEPT ![it].Type = typeText(roi),
                                    ![it].From = strOrNotFound(Some(roi.fromdata)),
                                    ![it].To = strOrNotFound(Some(roi.todata))]
                  c == computeRawAndNetCounts(hp, dict[roiName], plt, curve)
              IN  IF c.err # "none" THEN [rows |-> r1, err |-> c.err]
                  ELSE [rows |-> [r1 EXCEPT ![it].Raw = rawText(roi, c),
                                            ![it].Net = netText(roi, c)],
                        err |-> "none"]

-----------------------------------------------------------------------------
(* ROITable._clearMarkers and ROITable._updateMarkers *)

RECURSIVE removeRoiMarkers(_, _)
\* the loop of _clearMarkers over the names of roidict
removeRoiMarkers(mk, names) ==
    IF names = {} THEN mk
    ELSE LET n == CHOOSE m \in names : TRUE
         IN  removeRoiMarkers(removeMarker(removeMarker(mk, nameRoiMin(n)), nameRoiMax(n)),
                              names \ {n})

clearMarkers(mk, plt, dict) ==
    IF plt = "None" THEN mk
    ELSE removeRoiMarkers(
             removeMarker(removeMarker(removeMarker(mk, "ROI min"), "ROI max"), "ROI middle"),
             DOMAIN dict)

RECURSIVE addRoiMarkers(_, _, _, _)
\* the loop of _updateMarkers over the names of roidict, in 'show all' mode
addRoiMarkers(mk, names, dict, hp) ==
    IF names = {} THEN mk
    ELSE LET n == CHOOSE m \in names : TRUE
             roi == hp[dict[n]]
         IN  addRoiMarkers(addXMarker(addXMarker(mk, nameRoiMin(n), roi.fromdata),
                                      nameRoiMax(n), roi.todata),
                           names \ {n}, dict, hp)

\* ROITable._updateMarkers: the markers it leaves and the exception it raises
updateMarkers(mk, plt, all, middle, dict, hp, active) ==
    LET m0 == clearMarkers(mk, plt, dict) IN
    IF all
    THEN IF plt = "None"
         THEN \* self.plot.remove / self.plot.addXMarker on None
              IF middle \/ DOMAIN dict # {}
              THEN [markers |-> m0, err |-> "AttributeError"]
              ELSE [markers |-> m0, err |-> "none"]
         ELSE LET m1 == IF middle THEN removeMarker(m0, "ROI middle") ELSE m0
              IN  [markers |-> addRoiMarkers(m1, DOMAIN dict, dict, hp), err |-> "none"]
    ELSE IF active = 0 \/ plt = "None" THEN [markers |-> m0, err |-> "none"]
         ELSE LET m1 == addXMarker(addXMarker(m0, "ROI min", hp[active].fromdata),
                                   "ROI max", hp[active].todata)
              IN  IF hp[active].draggable /\ middle
                  THEN \* pos = 0.5 * (fromdata + todata): locals assigned in the
                       \* other branch only
                       [markers |-> m1, err |-> "UnboundLocalError"]
                  ELSE [markers |-> m1, err |-> "none"]

-----------------------------------------------------------------------------
(* silx.gui.data.DataViews: the data handed to the views *)

Shapes == {<<>>, <<1>>, <<3>>, <<1, 3>>, <<2, 2>>, <<1, 2, 2>>, <<2, 2, 2>>, <<2, 2, 2, 2>>}
Interpretations == {"None", "spectrum", "scalar"}
Dtypes == {"number", "string", "record"}

\* a data: what kind of object it is, the kind of its dtype ("none": the object
\* has no dtype), its shape, its interpretation attribute, and whether it is
\* held in a H5Node.  For a NXdata group, dtype and shape are those of its
\* signal.
mkData(kind, dtype, shape, interpretation, wrapped) ==
    [kind |-> kind, dtype |-> dtype, shape |-> shape,
     interpretation |-> interpretation, wrapped |-> wrapped]

NoneData == mkData("None", "none", <<>>, "None", FALSE)

Data ==
    {NoneData, mkData("number", "none", <<>>, "None", FALSE),
     mkData("str", "none", <<>>, "None", FALSE),
     mkData("group", "none", <<>>, "None", FALSE),
     mkData("group", "none", <<>>, "None", TRUE),
     mkData("dataset", "number", <<3>>, "spectrum", TRUE),
     mkData("dataset", "record", <<1>>, "None", TRUE)}
    \cup {mkData("ndarray", t, sh, "None", FALSE) : t \in Dtypes, sh \in Shapes}
    \cup {mkData("dataset", t, sh, i, FALSE) :
              t \in Dtypes, sh \in Shapes, i \in Interpretations}
    \cup {mkData("nxdata", "number", sh, i, FALSE) :
              sh \in {<<3>>, <<2, 2>>}, i \in Interpretations}
    \cup {mkData("dataset", "number", sh, "image", FALSE) :
              sh \in {<<2, 2>>, <<2, 2, 2>>}}

\* _normalizeData: the h5py object of a H5Node, any other data as it is
normalizeData(data) == [data EXCEPT !.wrapped = FALSE]

is_group(data) == data.kind \in {"group", "nxdata"} /\ ~data.wrapped
is_dataset(data) == data.kind = "dataset" /\ ~data.wrapped
hasDtype(data) == data.kind \in {"ndarray", "dataset"} /\ ~data.wrapped
hasShape(data) == data.kind \in {"ndarray", "dataset"} /\ ~data.wrapped

DataInfoArrayUnlessSet(data0) ==
    [isArray |-> data0.kind \in {"None", "ndarray"}
                 \/ (is_dataset(normalizeData(data0)) /\ data0.shape # <<>>),
     interpretation |-> "None", isNumeric |-> FALSE, isRecord |-> FALSE,
     isNXdata |-> FALSE, shape |-> <<>>, dim |-> 0]

\* DataInfo.__init__(data)
DataInfo(data0) ==
    LET data == normalizeData(data0)
        isNXdata == is_group(data) /\ data.kind = "nxdata"
        shape == IF hasShape(data) \/ isNXdata THEN data.shape ELSE <<>>
    IN  IF data.kind = "None"
        THEN [isArray |-> FALSE, interpretation |-> "None", isNumeric |-> FALSE,
              isRecord |-> FALSE, isNXdata |-> FALSE, shape |-> <<>>, dim |-> 0]
        ELSE [isArray |-> \/ data.kind = "ndarray"
                          \/ (is_dataset(data) /\ data.shape # <<>>),
              interpretation |-> IF is_dataset(data) \/ isNXdata
                                 THEN data.interpretation ELSE "None",
              isNumeric |-> IF hasDtype(data) \/ isNXdata
                            THEN data.dtype = "number"
                            ELSE data.kind = "number",
              isRecord |-> hasDtype(data) /\ data.dtype = "record",
              isNXdata |-> isNXdata,
              shape |-> shape,
              dim |-> Len(shape)]

-----------------------------------------------------------------------------
(* silx.gui.data.DataViews: the priorities of the views *)

UNSUPPORTED == -1

RECURSIVE minSeq(_)
\* min(data.shape)
minSeq(sh) ==
    IF Len(sh) = 1 THEN sh[1]
    ELSE LET m == minSeq(Tail(sh)) IN IF sh[1] < m THEN sh[1] ELSE m

EmptyView_getDataPriority(data, info) == UNSUPPORTED

Plot1dBeforeSpectrum(data, info) ==
    IF data.kind = "None" \/ ~info.isArray \/ ~info.isNumeric THEN UNSUPPORTED
    ELSE IF info.dim < 1 THEN UNSUPPORTED
    ELSE IF info.dim = 2 /\ info.shape[1] = 1 THEN 210
    ELSE IF info.interpretation = "spectrum" THEN 1000
    ELSE IF info.dim = 1 THEN 100
    ELSE 10

Plot1dView_getDataPriority(data, info) ==
    IF data.kind = "None" \/ ~info.isArray \/ ~info.isNumeric THEN UNSUPPORTED
    ELSE IF info.dim < 1 THEN UNSUPPORTED
    ELSE IF info.interpretation = "spectrum" THEN 1000
    ELSE IF info.dim = 2 /\ info.shape[1] = 1 THEN 210
    ELSE IF info.dim = 1 THEN 100
    ELSE 10

Plot2dView_getDataPriority(data, info) ==
    IF data.kind = "None" \/ ~info.isArray \/ ~info.isNumeric THEN UNSUPPORTED
    ELSE IF info.dim < 2 THEN UNSUPPORTED
    ELSE IF info.interpretation = "image" THEN 1000
    ELSE IF info.dim = 2 THEN 200
    ELSE 190

Plot3dView_getDataPriority(data, info) ==
    IF data.kind = "None" \/ ~info.isArray \/ ~info.isNumeric THEN UNSUPPORTED
    ELSE IF info.dim < 3 THEN UNSUPPORTED
    ELSE IF minSeq(data.shape) < 2 THEN UNSUPPORTED
    ELSE IF info.dim = 3 THEN 100
    ELSE 10

ArrayView_getDataPriority(data, info) ==
    IF data.kind = "None" \/ ~info.isArray \/ info.isRecord THEN UNSUPPORTED
    ELSE IF info.dim < 2 THEN UNSUPPORTED
    ELSE IF info.interpretation \in {"scalar", "scaler"} THEN 1000
    ELSE 50

StackView_getDataPriority(data, info) ==
    IF data.kind = "None" \/ ~info.isArray \/ ~info.isNumeric THEN UNSUPPORTED
    ELSE IF info.dim < 3 THEN UNSUPPORTED
    ELSE IF info.interpretation = "image" THEN 500
    ELSE 90

ScalarWithoutNoneCheck(data0, info) ==
    IF is_group(normalizeData(data0)) THEN UNSUPPORTED ELSE 2

ScalarView_getDataPriority(data0, info) ==
    LET data == normalizeData(data0)
    IN  IF data.kind = "None" THEN UNSUPPORTED
        ELSE IF is_group(data) THEN UNSUPPORTED
        ELSE 2

RecordAnyDim(data, info) ==
    IF info.isRecord THEN 40
    ELSE IF data.kind = "None" \/ ~info.isArray THEN UNSUPPORTED
    ELSE IF info.interpretation \in {"scalar", "scaler"} THEN 1000
    ELSE IF info.dim >= 1 /\ info.shape[1] = 1 THEN 110
    ELSE 40

RecordView_getDataPriority(data, info) ==
    IF info.isRecord THEN 40
    ELSE IF data.kind = "None" \/ ~info.isArray THEN UNSUPPORTED
    ELSE IF info.dim = 1
         THEN IF info.interpretation \in {"scalar", "scaler"} THEN 1000
              ELSE IF info.shape[1] = 1 THEN 110
              ELSE 40
    ELSE IF info.isRecord THEN 40
    ELSE UNSUPPORTED

\* Hdf5TableModel.isSupportedObject(data): the model shows h5py-like objects
isSupportedObject(data) == data.kind \in {"group", "nxdata", "dataset"}

Hdf5View_getDataPriority(data, info) ==
    IF isSupportedObject(data) THEN 1 ELSE UNSUPPORTED

\* the classes of the views that are not composite, in the order of str()
LeafClasses == << "_ArrayView", "_EmptyView", "_Hdf5View", "_Plot1dView", "_Plot2dView",
                  "_Plot3dView", "_RecordView", "_ScalarView", "_StackView" >>

ViewClasses == {LeafClasses[k] : k \in 1..Len(LeafClasses)}

\* view.getDataPriority(data, info), by the class of the view
getDataPriority(cls, data, info) ==
    CASE cls = "_EmptyView"  -> EmptyView_getDataPriority(data, info)
      [] cls = "_Plot1dView" -> Plot1dView_getDataPriority(data, info)
      [] cls = "_Plot2dView" -> Plot2dView_getDataPriority(data, info)
      [] cls = "_Plot3dView" -> Plot3dView_getDataPriority(data, info)
      [] cls = "_ArrayView"  -> ArrayView_getDataPriority(data, info)
      [] cls = "_StackView"  -> StackView_getDataPriority(data, info)
      [] cls = "_ScalarView" -> ScalarView_getDataPriority(data, info)
      [] cls = "_RecordView" -> RecordView_getDataPriority(data, info)
      [] cls = "_Hdf5View"   -> Hdf5View_getDataPriority(data, info)

\* view.axesNames(data, info)
axesNames(cls) ==
    CASE cls = "_Plot1dView" -> <<"y">>
      [] cls = "_Plot2dView" -> <<"y", "x">>
      [] cls = "_Plot3dView" -> <<"z", "y", "x">>
      [] cls = "_ArrayView"  -> <<"col", "row">>
      [] cls = "_StackView"  -> <<"depth", "y", "x">>
      [] cls = "_RecordView" -> <<"data">>
      [] OTHER -> <<>>

\* view.customAxisNames()
customAxisNames(cls) == IF cls = "_StackView" THEN <<"depth">> ELSE <<>>

-----------------------------------------------------------------------------
(* silx.gui.data.DataViews: the view objects and CompositeDataView *)

\* a view object: its class, the address id() gives it, the number of widgets
\* createWidget made for it, the index __views keeps for it in the
\* composite's stacked widget (None before it is shown), and the data its
\* widget displays (None when it displays none)
newView(cls, addr) ==
    [cls |-> cls, addr |-> addr, widgets |-> 0, index |-> None, shown |-> None]

\* _RawView.__init__: the three views it registers
RawViews == << newView("_ScalarView", 1), newView("_ArrayView", 2),
               newView("_RecordView", 3) >>

Addrs == 1..(MaxViews + 1)

\* DataView.getWidget on the view v
getWidget(v) == IF v.widgets = 0 THEN [v EXCEPT !.widgets = 1] ELSE v

\* what a call of getDataPriority leaves of the view: _Hdf5View asks its
\* widget's model, and so makes the widget
afterPriority(v) == IF v.cls = "_Hdf5View" THEN getWidget(v) ELSE v

classRank(cls) == CHOOSE k \in 1..Len(LeafClasses) : LeafClasses[k] = cls

\* DataView.__lt__: str(self) < str(other), with str() the default
\* '<silx.gui.data.DataViews.CLASS object at 0xADDR>'
viewLess(v, w) ==
    \/ classRank(v.cls) < classRank(w.cls)
    \/ (classRank(v.cls) = classRank(w.cls) /\ v.addr < w.addr)

\* the order of the tuples (priority, view): t[1] the priority, t[2] the index
\* of the view in vs
tupleLess(vs, t, u) ==
    \/ t[1] < u[1]
    \/ (t[1] = u[1] /\ t[2] # u[2] /\ viewLess(vs[t[2]], vs[u[2]]))

RECURSIVE insertDescending(_, _, _)
insertDescending(vs, t, sorted) ==
    IF sorted = <<>> THEN <<t>>
    ELSE IF tupleLess(vs, Head(sorted), t) THEN <<t>> \o sorted
    ELSE <<Head(sorted)>> \o insertDescending(vs, t, Tail(sorted))

RECURSIVE sortedReverse(_, _)
\* sorted(views, reverse=True)
sortedReverse(vs, tuples) ==
    IF tuples = <<>> THEN <<>>
    ELSE insertDescending(vs, tuples[Len(tuples)],
                          sortedReverse(vs, SubSeq(tuples, 1, Len(tuples) - 1)))

bestIsLast(sorted) == sorted[Len(sorted)][2]

\* which of the sorted tuples getBestView returns the view of
bestOfSorted(sorted) == sorted[1][2]

\* CompositeDataView.getBestView(data, info): the index of the view it
\* returns, 0 for None
getBestView(vs, data) ==
    LET info == DataInfo(data)
        all == [k \in 1..Len(vs) |-> <<getDataPriority(vs[k].cls, data, info), k>>]
        supported == SelectSeq(all, LAMBDA t : t[1] > UNSUPPORTED)
        sorted == sortedReverse(vs, supported)
    IN  IF Len(sorted) = 0 THEN 0
        ELSE IF sorted[1][1] = UNSUPPORTED THEN 0
        ELSE bestOfSorted(sorted)

\* the views after getBestView asked each of them its priority
afterBestView(vs) == [k \in 1..Len(vs) |-> afterPriority(vs[k])]

compositeFirstView(vs, data, info) ==
    IF Len(vs) = 0 THEN UNSUPPORTED ELSE getDataPriority(vs[1].cls, data, info)

\* CompositeDataView.getDataPriority(data, info): the priority it returns
compositePriority(vs, data, info) ==
    LET view == getBestView(vs, data)
    IN  IF view = 0 THEN UNSUPPORTED ELSE getDataPriority(vs[view].cls, data, info)

\* the record of a call on a view
VOp(op, view, data) ==
    [op |-> op, view |-> view, data |-> data, prio |-> UNSUPPORTED, best |-> 0,
     names |-> <<>>, touched |-> {}, info |-> DataInfo(NoneData), err |-> "none"]

-----------------------------------------------------------------------------
(* silx.gui.plot.plugins.PluginLoader *)

\* a python file of a plugin directory: its module name, whether it defines the
\* target function, whether running the module raises, and whether the target
\* function raises when called
mkModule(name, isPlugin, importFails, callFails) ==
    [name |-> name, isPlugin |-> isPlugin, importFails |-> importFails,
     callFails |-> callFails]

\* the directories of the file system and the python files in each
Directories ==
    [d \in {"plugins", "extra"} |->
        IF d = "plugins"
        THEN << mkModule("fitPlugin", TRUE, FALSE, FALSE),
                mkModule("brokenPlugin", TRUE, FALSE, TRUE),
                mkModule("helpers", FALSE, FALSE, FALSE) >>
        ELSE << mkModule("medianPlugin", TRUE, FALSE, FALSE) >>]

MissingDirectory == "nosuchdir"

DirectoryLists ==
    {<<>>, <<"plugins">>, <<"extra">>, <<"plugins", "extra">>, <<MissingDirectory>>}

ModuleNames ==
    UNION {{Directories[d][k].name : k \in 1..Len(Directories[d])} : d \in DOMAIN Directories}

\* the module global DEBUG read by getPlugins: the module assigns PLUGINS_DIR
\* and _logger and no DEBUG, so the read raises NameError
debugIsBound == FALSE

\* self.pluginList = []: pluginList is a property without a setter, so the
\* assignment raises AttributeError
pluginListHasSetter == FALSE

\* the name `plugin` read by the except clause of getPlugins: no such local or
\* global, so the clause raises NameError in place of the exception it caught
pluginIsBound == FALSE

\* the result of a call on the loader
LoaderCall(op, dirs, exceptions, count, failed, err) ==
    [op |-> op, dirs |-> dirs, exceptions |-> exceptions, count |-> count,
     failed |-> failed, err |-> err]

\* PluginLoader.__init__ up to its call of getPlugins
newLoader ==
    [pluginDirList |-> <<>>, pluginInstanceDict |-> <<>>, sysModules |-> {},
     call |-> LoaderCall("init", <<>>, FALSE, 0, {}, "none")]

inDict(ld, name) ==
    \E k \in 1..Len(ld.pluginInstanceDict) : ld.pluginInstanceDict[k] = name

\* the body of `for module in moduleList` for one module: the loader it
\* leaves, the modules named in the error text, and the exception escaping
loadModule(ld, m, failed) ==
    LET \* lines 127-132: a module already in sys.modules is reloaded, any
        \* other module is left unimported
        reloadRaises == ~inDict(ld, m.name) /\ m.name \in ld.sysModules /\ m.importFails
        \* line 133: sys.modules[pluginModName]
        keyError == m.name \notin ld.sysModules
        callRaises == m.callFails
    IN  IF reloadRaises \/ keyError \/ callRaises
        THEN IF pluginIsBound
             THEN [ld |-> ld, failed |-> failed \cup {m.name}, err |-> "none"]
             ELSE [ld |-> ld, failed |-> failed, err |-> "NameError"]
        ELSE [ld |-> IF inDict(ld, m.name) THEN ld
                     ELSE [ld EXCEPT !.pluginInstanceDict = Append(@, m.name)],
              failed |-> failed, err |-> "none"]

RECURSIVE loadModules(_, _, _)
\* for module in moduleList
loadModules(ld, mods, failed) ==
    IF mods = <<>> THEN [ld |-> ld, failed |-> failed, err |-> "none"]
    ELSE LET r == loadModule(ld, Head(mods), failed)
         IN  IF r.err # "none" THEN r ELSE loadModules(r.ld, Tail(mods), r.failed)

RECURSIVE loadDirectories(_, _, _)
\* for directory in self._pluginDirList
loadDirectories(ld, dirs, failed) ==
    IF dirs = <<>> THEN [ld |-> ld, failed |-> failed, err |-> "none"]
    ELSE IF Head(dirs) = "None" THEN loadDirectories(ld, Tail(dirs), failed)
    ELSE IF Head(dirs) \notin DOMAIN Directories
         THEN [ld |-> ld, failed |-> failed, err |-> "IOError"]
    ELSE LET moduleList == SelectSeq(Directories[Head(dirs)], LAMBDA m : m.isPlugin)
             r == loadModules(ld, moduleList, failed)
         IN  IF r.err # "none" THEN r ELSE loadDirectories(r.ld, Tail(dirs), r.failed)

\* PluginLoader.getPlugins(method=None, directoryList, exceptions): the loader
\* it leaves, with the call's result
getPlugins(ld, directoryList, exceptions) ==
    LET dirs0 == IF directoryList = <<>> THEN ld.pluginDirList ELSE directoryList
        dirs == IF dirs0 = <<>> THEN <<"None">> ELSE dirs0
    IN  IF ~debugIsBound
        THEN [ld EXCEPT !.call = LoaderCall("getPlugins", directoryList, exceptions,
                                            0, {}, "NameError")]
        ELSE LET ld1 == [ld EXCEPT !.pluginDirList = dirs]
             IN  IF ~pluginListHasSetter
                 THEN [ld1 EXCEPT !.call = LoaderCall("getPlugins", directoryList,
                                                      exceptions, 0, {}, "AttributeError")]
                 ELSE LET r == loadDirectories(ld1, dirs, {})
                      IN  [r.ld EXCEPT !.call =
                              LoaderCall("getPlugins", directoryList, exceptions,
                                         Len(r.ld.pluginInstanceDict), r.failed, r.err)]

\* PluginLoader.setPluginDirectoryList(dirlist)
setPluginDirectoryList(ld, dirlist) ==
    IF \E k \in 1..Len(dirlist) : dirlist[k] \notin DOMAIN Directories
    THEN [ld EXCEPT !.call = LoaderCall("setPluginDirectoryList", dirlist, FALSE, 0, {},
                                        "IOError")]
    ELSE [ld EXCEPT !.pluginDirList = dirlist,
                    !.call = LoaderCall("setPluginDirectoryList", dirlist, FALSE, 0, {},
                                        "none")]

-----------------------------------------------------------------------------
(* Ghost record of the last operation *)

Op(op, name, id, err) ==
    [op |-> op, name |-> name, id |-> id, rois |-> <<>>, err |-> err]

-----------------------------------------------------------------------------
Init ==
    /\ heap = InitialRois
    /\ plot = "plot"
    /\ activeCurve = 0
    /\ markers = EmptyDict
    /\ roidict = EmptyDict
    /\ RoiToItems = EmptyDict
    /\ rows = EmptyDict
    /\ selected = {}
    /\ current = 0
    /\ activeRoi = 0
    /\ showAll = FALSE
    /\ middleFlag = FALSE
    /\ file \in Documents
    /\ last = Op("init", "", 0, "none")
    /\ views = <<>>
    /\ currentView = 0
    /\ stacked = [created |-> FALSE, count |-> 0, currentIndex |-> -1]
    /\ vlast = VOp("init", 0, NoneData)
    /\ loader = newLoader

\* client code: roi.fromdata, roi.todata = w, then roi.sigChanged.emit(); the
\* callback addRoi connected runs _updateRoiInfo(roi.name)
RoiChanged(id, w) ==
    /\ id \in 1..Len(heap)
    /\ LET hp == [heap EXCEPT ![id].fromdata = w[1], ![id].todata = w[2]]
           r == IF heap[id].connected
                THEN updateRoiInfo(heap[id].name, hp, roidict, RoiToItems, rows,
                                   plot, activeCurve)
                ELSE [rows |-> rows, err |-> "none"]
       IN  /\ heap' = hp
           /\ rows' = r.rows
           /\ last' = Op("sigChanged", heap[id].name, id, r.err)
    /\ UNCHANGED <<plot, activeCurve, markers, roidict, RoiToItems,
                   selected, current, activeRoi, showAll, middleFlag, file>>
    /\ UNCHANGED viewVars
    /\ UNCHANGED loader

\* the host plot changes its active curve (0: no active curve)
PlotSetActiveCurve(c) ==
    /\ c # activeCurve
    /\ activeCurve' = c
    /\ last' = Op("setActiveCurve", "", c, "none")
    /\ UNCHANGED <<heap, plot, markers, roidict, RoiToItems, rows,
                   selected, current, activeRoi, showAll, middleFlag, file>>
    /\ UNCHANGED viewVars
    /\ UNCHANGED loader

\* what ROITable.clear leaves of roidict
clearRoidict(dict) == dict

\* ROITable.clear
Clear ==
    /\ RoiToItems' = EmptyDict
    /\ rows' = EmptyDict
    /\ selected' = {}
    /\ current' = 0
    /\ roidict' = clearRoidict(roidict)
    /\ last' = Op("clear", "", 0, "none")
    /\ UNCHANGED <<heap, plot, activeCurve, markers, activeRoi, showAll,
                   middleFlag, file>>
    /\ UNCHANGED viewVars
    /\ UNCHANGED loader

\* ROITable.setPlot(plot)
SetPlot(p) ==
    /\ RoiToItems' = EmptyDict
    /\ rows' = EmptyDict
    /\ selected' = {}
    /\ current' = 0
    /\ roidict' = clearRoidict(roidict)
    /\ plot' = p
    /\ last' = Op("setPlot", p, 0, "none")
    /\ UNCHANGED <<heap, activeCurve, markers, activeRoi, showAll, middleFlag, file>>
    /\ UNCHANGED viewVars
    /\ UNCHANGED loader

\* the name `_ROI` read by the isinstance assertion of setRois: the module
\* defines the class ROI and nothing named _ROI, so the read raises NameError
underscoreROIIsBound == FALSE

\* ROITable.setRois(rois, order), rois a list of ROI objects
SetRois(rois, order) ==
    /\ \A k \in 1..Len(rois) : rois[k] \in 1..Len(heap)
    /\ IF order \notin Orders
       THEN /\ last' = [Op("setRois", order, 0, "AssertionError") EXCEPT !.rois = rois]
            /\ UNCHANGED <<heap, plot, activeCurve, markers, roidict, RoiToItems, rows,
                           selected, current, activeRoi, showAll, middleFlag, file>>
       ELSE /\ RoiToItems' = EmptyDict
            /\ rows' = EmptyDict
            /\ selected' = {}
            /\ current' = 0
            /\ roidict' = clearRoidict(roidict)
            /\ last' = [Op("setRois", order, 0,
                             IF rois # <<>> /\ ~underscoreROIIsBound
                             THEN "NameError" ELSE "none") EXCEPT !.rois = rois]
            /\ UNCHANGED <<heap, plot, activeCurve, markers, activeRoi, showAll,
                           middleFlag, file>>
    /\ UNCHANGED viewVars
    /\ UNCHANGED loader

addRoiKeepsActive(id) == activeRoi

\* the ROI addRoi makes the active one
addRoiActive(id) == id

\* ROITable.addRoi(roi), roi the ROI object heap[id]
AddRoi(id) ==
    /\ id \in 1..Len(heap)
    /\ Cardinality(DOMAIN rows) < MaxRows
    /\ LET roi == heap[id]
           item == newItem(rows)
           rows1 == Put(rows, item, newRow(roi.name))
           items1 == Put(RoiToItems, roi.name, item)
           dict1 == Put(roidict, roi.name, id)
           r == updateRoiInfo(roi.name, heap, dict1, items1, rows1, plot, activeCurve)
       IN  /\ rows' = r.rows
           /\ RoiToItems' = items1
           /\ roidict' = dict1
           /\ activeRoi' = addRoiActive(id)
           /\ heap' = IF r.err = "none" THEN [heap EXCEPT ![id].connected = TRUE]
                      ELSE heap
           /\ last' = Op("addRoi", roi.name, id, r.err)
    /\ UNCHANGED <<plot, activeCurve, markers, selected, current, showAll,
                   middleFlag, file>>
    /\ UNCHANGED viewVars
    /\ UNCHANGED loader

\* ROITable.removeROI(name) on the table's state t
removeROI(t, name) ==
    IF name \in DOMAIN t.RoiToItems
    THEN LET item == t.RoiToItems[name]
             t1 == [t EXCEPT !.rows = Del(t.rows, item),
                             !.selected = t.selected \ {item},
                             !.current = IF t.current = item THEN 0 ELSE t.current,
                             !.RoiToItems = Del(t.RoiToItems, name)]
         IN  IF name \notin DOMAIN t.roidict
             THEN [t1 EXCEPT !.err = "AssertionError"]
             ELSE [t1 EXCEPT !.roidict = Del(t.roidict, name)]
    ELSE t

TableState ==
    [roidict |-> roidict, RoiToItems |-> RoiToItems, rows |-> rows,
     selected |-> selected, current |-> current, err |-> "none"]

RemoveROI(name) ==
    /\ LET t == removeROI(TableState, name)
       IN  /\ roidict' = t.roidict
           /\ RoiToItems' = t.RoiToItems
           /\ rows' = t.rows
           /\ selected' = t.selected
           /\ current' = t.current
           /\ last' = Op("removeROI", name, 0, t.err)
    /\ UNCHANGED <<heap, plot, activeCurve, markers, activeRoi, showAll,
                   middleFlag, file>>
    /\ UNCHANGED viewVars
    /\ UNCHANGED loader

RECURSIVE removeAll(_, _)
\* [self.removeROI(roiName) for roiName in roiToRm]
removeAll(t, names) ==
    IF names = {} \/ t.err # "none" THEN t
    ELSE LET n == CHOOSE m \in names : TRUE
         IN  removeAll(removeROI(t, n), names \ {n})

\* ROITable.deleteActiveRoi
DeleteActiveRoi ==
    /\ LET roiToRm == {rows[r].ROI : r \in selected}
           t == removeAll(TableState, roiToRm)
       IN  /\ roidict' = t.roidict
           /\ RoiToItems' = t.RoiToItems
           /\ rows' = t.rows
           /\ selected' = t.selected
           /\ current' = t.current
           /\ last' = Op("deleteActiveRoi", "", Cardinality(roiToRm), t.err)
    /\ UNCHANGED <<heap, plot, activeCurve, markers, activeRoi, showAll,
                   middleFlag, file>>
    /\ UNCHANGED viewVars
    /\ UNCHANGED loader

\* ROITable.currentChanged(current, previous) with current the row `row`:
\* the active ROI and the markers it leaves, given the active ROI `active`
currentChanged(row, active) ==
    IF row # current
    THEN IF rows[row].ROI \notin DOMAIN roidict
         THEN [activeRoi |-> active, markers |-> markers, err |-> "KeyError"]
         ELSE LET a == roidict[rows[row].ROI]
                  m == updateMarkers(markers, plot, showAll, middleFlag, roidict, heap, a)
              IN  [activeRoi |-> a, markers |-> m.markers, err |-> m.err]
    ELSE [activeRoi |-> active, markers |-> markers, err |-> "none"]

\* the user clicks a cell of row `row`: the row is selected and becomes current
UserSelectRow(row) ==
    /\ row \in DOMAIN rows
    /\ LET c == currentChanged(row, activeRoi)
       IN  /\ activeRoi' = c.activeRoi
           /\ markers' = c.markers
           /\ last' = Op(IF row # current THEN "currentChanged" ELSE "click",
                         rows[row].ROI, row, c.err)
    /\ selected' = {row}
    /\ current' = row
    /\ UNCHANGED <<heap, plot, activeCurve, roidict, RoiToItems, rows, showAll,
                   middleFlag, file>>
    /\ UNCHANGED viewVars
    /\ UNCHANGED loader

\* ROITable.setActiveRoi(roi), roi the ROI object heap[id]
SetActiveRoi(id) ==
    /\ id \in 1..Len(heap)
    /\ IF heap[id].name \in DOMAIN RoiToItems
       THEN LET row == RoiToItems[heap[id].name]
                c == currentChanged(row, id)
            IN  /\ activeRoi' = c.activeRoi
                /\ markers' = c.markers
                /\ selected' = {row}
                /\ current' = row
                /\ last' = Op("setActiveRoi", heap[id].name, id, c.err)
       ELSE /\ last' = Op("setActiveRoi", heap[id].name, id, "none")
            /\ UNCHANGED <<activeRoi, markers, selected, current>>
    /\ UNCHANGED <<heap, plot, activeCurve, roidict, RoiToItems, rows, showAll,
                   middleFlag, file>>
    /\ UNCHANGED viewVars
    /\ UNCHANGED loader

\* ROITable.showAllMarkers(_show)
ShowAllMarkers(show) ==
    /\ IF showAll = show
       THEN /\ last' = Op("showAllMarkers", "", 0, "none")
            /\ UNCHANGED <<showAll, markers>>
       ELSE LET m == updateMarkers(markers, plot, show, middleFlag, roidict, heap,
                                   activeRoi)
            IN  /\ showAll' = show
                /\ markers' = m.markers
                /\ last' = Op("showAllMarkers", "", 1, m.err)
    /\ UNCHANGED <<heap, plot, activeCurve, roidict, RoiToItems, rows, selected,
                   current, activeRoi, middleFlag, file>>
    /\ UNCHANGED viewVars
    /\ UNCHANGED loader

\* ROITable.setMiddleROIMarkerFlag(flag)
SetMiddleROIMarkerFlag(flag) ==
    /\ flag # middleFlag
    /\ middleFlag' = flag
    /\ last' = Op("setMiddleROIMarkerFlag", "", 0, "none")
    /\ UNCHANGED <<heap, plot, activeCurve, markers, roidict, RoiToItems, rows,
                   selected, current, activeRoi, showAll, file>>
    /\ UNCHANGED viewVars
    /\ UNCHANGED loader

\* the attribute `roiTable` ROITable.save and ROITable.load read on self: a
\* ROITable has no such attribute, so the read raises AttributeError
roiTableAttribute == FALSE

\* ROITable.save(filename): the document it writes, None when it writes none
saveDocument(dict, hp) ==
    IF ~roiTableAttribute THEN None
    ELSE Some({toDict(hp[dict[n]]) : n \in DOMAIN dict})

Save ==
    /\ LET d == saveDocument(roidict, heap)
       IN  /\ file' = IF d = None THEN file ELSE CHOOSE doc \in d : TRUE
           /\ last' = Op("save", "", 0, IF d = None THEN "AttributeError" ELSE "none")
    /\ UNCHANGED <<heap, plot, activeCurve, markers, roidict, RoiToItems, rows,
                   selected, current, activeRoi, showAll, middleFlag>>
    /\ UNCHANGED viewVars
    /\ UNCHANGED loader

\* ROITable.load(filename): ROI._frmDict is not an attribute of the class ROI,
\* and self.roiTable is not an attribute of the table
Load ==
    /\ last' = Op("load", IF last.op = "save" THEN "after save" ELSE "", 0,
                   "AttributeError")
    /\ UNCHANGED <<heap, plot, activeCurve, markers, roidict, RoiToItems, rows,
                   selected, current, activeRoi, showAll, middleFlag, file>>
    /\ UNCHANGED viewVars
    /\ UNCHANGED loader

-----------------------------------------------------------------------------
(* CurvesROIWidget: the Add, Delete and Reset buttons *)

\* plot.getXAxis().getLimits() and plot.getXAxis().getLabel() of the host plot
XAxisLimits == <<0, 4>>
XAxisLabel == "X"

\* "newroi %d" % i
newroiName(i) == "newroi " \o ToString(i)

\* getNextROIName() of _add: None when the loop ends without a return
getNextROIName(dict) ==
    LET nrois == Cardinality(DOMAIN dict)
        free == {i \in 1..nrois : newroiName(i) \notin DOMAIN dict}
    IN  IF nrois = 0 THEN Some("ICR")
        ELSE IF free = {} THEN None
        ELSE Some(newroiName(CHOOSE i \in free : \A j \in free : i <= j))

\* CurvesROIWidget._getAllLimits: xmin and xmax over the curves of the plot
getAllLimits ==
    LET xs == UNION {{Curves[c].x[k] : k \in 1..Len(Curves[c].x)} : c \in 1..Len(Curves)}
    IN  IF Len(Curves) = 0 THEN <<1, 100>>
        ELSE << CHOOSE a \in xs : \A b \in xs : a <= b,
                CHOOSE a \in xs : \A b \in xs : b <= a >>

\* the ROI object _add constructs for the name `name`
buttonROI(name) ==
    LET xmin == XAxisLimits[1]
        xmax == XAxisLimits[2]
        fromdata == IF name = "ICR" THEN getAllLimits[1] ELSE xmin + (xmax - xmin) \div 4
        todata == IF name = "ICR" THEN getAllLimits[2] ELSE xmin + (3 * (xmax - xmin)) \div 4
    IN  [addButtonROI(newROI(name, fromdata, todata)) EXCEPT
            !.color = IF name = "ICR" THEN "black" ELSE "blue",
            !.type = IF name = "ICR" THEN "Default" ELSE XAxisLabel]

\* CurvesROIWidget._add on the table's state: ROI(name=getNextROIName()), the
\* attributes, then roiTable.addRoi(roi)
buttonAdd(hp, dict, items, rws, active) ==
    LET n == getNextROIName(dict) IN
    IF n = None
    THEN \* assert type(name) is str, in ROI.__init__
         [heap |-> hp, roidict |-> dict, RoiToItems |-> items, rows |-> rws,
          activeRoi |-> active, name |-> "", id |-> 0, err |-> "AssertionError"]
    ELSE LET name == CHOOSE m \in n : TRUE
             id == Len(hp) + 1
             hp1 == Append(hp, buttonROI(name))
             item == newItem(rws)
             rows1 == Put(rws, item, newRow(name))
             items1 == Put(items, name, item)
             dict1 == Put(dict, name, id)
             r == updateRoiInfo(name, hp1, dict1, items1, rows1, plot, activeCurve)
         IN  [heap |-> IF r.err = "none" THEN [hp1 EXCEPT ![id].connected = TRUE] ELSE hp1,
              roidict |-> dict1, RoiToItems |-> items1, rows |-> r.rows,
              activeRoi |-> addRoiActive(id), name |-> name, id |-> id, err |-> r.err]

\* the Add button: CurvesROIWidget._add
ButtonAdd ==
    /\ Len(heap) < MaxObjects
    /\ Cardinality(DOMAIN rows) < MaxRows
    /\ LET a == buttonAdd(heap, roidict, RoiToItems, rows, activeRoi)
       IN  /\ heap' = a.heap
           /\ roidict' = a.roidict
           /\ RoiToItems' = a.RoiToItems
           /\ rows' = a.rows
           /\ activeRoi' = a.activeRoi
           /\ last' = Op("_add", a.name, a.id, a.err)
    /\ UNCHANGED <<plot, activeCurve, markers, selected, current, showAll,
                   middleFlag, file>>
    /\ UNCHANGED viewVars
    /\ UNCHANGED loader

\* the Reset button: CurvesROIWidget._reset, roiTable.clear() then _add()
ButtonReset ==
    /\ Len(heap) < MaxObjects
    /\ LET a == buttonAdd(heap, clearRoidict(roidict), EmptyDict, EmptyDict, activeRoi)
       IN  /\ heap' = a.heap
           /\ roidict' = a.roidict
           /\ RoiToItems' = a.RoiToItems
           /\ rows' = a.rows
           /\ activeRoi' = a.activeRoi
           /\ last' = Op("_reset", a.name, a.id, a.err)
    /\ selected' = {}
    /\ current' = 0
    /\ UNCHANGED <<plot, activeCurve, markers, showAll, middleFlag, file>>
    /\ UNCHANGED viewVars
    /\ UNCHANGED loader

\* the Add and Delete buttons, and the selection of a row Delete acts on
NextAddDelete ==
    \/ ButtonAdd
    \/ DeleteActiveRoi
    \/ \E row \in 1..MaxRows : UserSelectRow(row)

SpecAddDelete == Init /\ [][NextAddDelete]_vars

\* the three buttons and the selection of a row
NextButtons ==
    \/ ButtonAdd
    \/ DeleteActiveRoi
    \/ ButtonReset
    \/ \E row \in 1..MaxRows : UserSelectRow(row)

SpecButtons == Init /\ [][NextButtons]_vars

\* the operations on the ROI collection: construction, addition, removal,
\* replacement, selection, persistence
Next ==
    \/ \E c \in 0..Len(Curves) : PlotSetActiveCurve(c)
    \/ Clear
    \/ \E p \in {"plot", "None"} : SetPlot(p)
    \/ \E rois \in {<<>>, <<1, 2>>} \cup {<<i>> : i \in RoiIds}, order \in OrderArgs :
           SetRois(rois, order)
    \/ \E id \in RoiIds : AddRoi(id)
    \/ \E name \in RoiNames \cup {UnknownName} : RemoveROI(name)
    \/ DeleteActiveRoi
    \/ \E row \in 1..MaxRows : UserSelectRow(row)
    \/ \E id \in RoiIds : SetActiveRoi(id)
    \/ Save
    \/ Load

Spec == Init /\ [][Next]_vars

\* the operations that write a row's cells: addition, the ROI's change
\* notification, and what they read (the active curve, the table's plot)
NextDisplay ==
    \/ \E id \in RoiIds, w \in Windows : RoiChanged(id, w)
    \/ \E c \in 0..Len(Curves) : PlotSetActiveCurve(c)
    \/ Clear
    \/ \E id \in RoiIds : AddRoi(id)
    \/ \E name \in RoiNames : RemoveROI(name)

SpecDisplay == Init /\ [][NextDisplay]_vars

\* the operations that write or move the plot's ROI markers
NextMarkers ==
    \/ \E id \in RoiIds, w \in Windows : RoiChanged(id, w)
    \/ \E id \in RoiIds : AddRoi(id)
    \/ \E name \in RoiNames : RemoveROI(name)
    \/ \E row \in 1..MaxRows : UserSelectRow(row)
    \/ \E show \in BOOLEAN : ShowAllMarkers(show)
    \/ \E flag \in BOOLEAN : SetMiddleROIMarkerFlag(flag)

SpecMarkers == Init /\ [][NextMarkers]_vars

\* the attribute `roiTable` CurvesROIDockWidget._handleROIMarkerEvent reads on
\* self: the dock widget has roiWidget, plot and the deprecated aliases, and no
\* roiTable, so the read raises AttributeError
dockRoiTableAttribute == FALSE

MarkerLabels == {"ROI min", "ROI max", "ROI middle", "newroi 1 ROI min", "newroi 1 ROI max"}
MarkerPositions == {0, 4}

\* CurvesROIDockWidget._handleROIMarkerEvent(ddict) with
\* ddict = {'event': event, 'label': label, 'x': x}: the exception it ends in
handleROIMarkerEvent(event, label, x) ==
    IF event # "markerMoved" THEN "none"
    ELSE IF label \notin {"ROI min", "ROI max", "ROI middle"} THEN "none"
    ELSE IF ~dockRoiTableAttribute THEN "AttributeError"
    ELSE \* self.currentRoi, self._middleROIMarkerFlag, self._emitCurrentROISignal:
         \* none of them is an attribute of the dock widget either
         "AttributeError"

\* the plot notifies a marker event; no statement of the handler that writes a
\* ROI bound or a marker is reached
HandleROIMarkerEvent(event, label, x) ==
    /\ last' = [Op(event, label, x, handleROIMarkerEvent(event, label, x))
                   EXCEPT !.rois = IF activeRoi = 0 THEN <<>> ELSE <<activeRoi>>]
    /\ UNCHANGED <<heap, plot, activeCurve, markers, roidict, RoiToItems, rows,
                   selected, current, activeRoi, showAll, middleFlag, file>>
    /\ UNCHANGED viewVars
    /\ UNCHANGED loader

\* the operations around a marker drag: the ROIs and their markers, the two
\* display modes, the middle marker flag, the plot's marker notification
NextDrag ==
    \/ \E id \in RoiIds : AddRoi(id)
    \/ \E row \in 1..MaxRows : UserSelectRow(row)
    \/ \E show \in BOOLEAN : ShowAllMarkers(show)
    \/ \E flag \in BOOLEAN : SetMiddleROIMarkerFlag(flag)
    \/ \E event \in {"markerMoved", "markerClicked"}, label \in MarkerLabels,
          x \in MarkerPositions : HandleROIMarkerEvent(event, label, x)

SpecDrag == Init /\ [][NextDrag]_vars

-----------------------------------------------------------------------------
(* The calls on a composite view and on its views *)

\* _RawView.__init__ in place of CompositeDataView.__init__: the composite is
\* constructed as the 'Raw' view, with its three views registered
NewRawView ==
    /\ vlast.op = "init"
    /\ views' = RawViews
    /\ vlast' = VOp("_RawView", 0, NoneData)
    /\ UNCHANGED <<currentView, stacked>>
    /\ UNCHANGED roiVars
    /\ UNCHANGED loader

\* CompositeDataView.addView(dataView), dataView a new view of class cls that
\* the interpreter placed at address addr
AddView(cls, addr) ==
    /\ Len(views) < MaxViews
    /\ \A k \in 1..Len(views) : views[k].addr # addr
    /\ views' = Append(views, newView(cls, addr))
    /\ vlast' = VOp("addView", Len(views) + 1, NoneData)
    /\ UNCHANGED <<currentView, stacked>>
    /\ UNCHANGED roiVars
    /\ UNCHANGED loader

\* views[i].getDataPriority(data, DataInfo(data)), called on the view itself
ViewGetDataPriority(i, data) ==
    /\ i \in 1..Len(views)
    /\ views' = [views EXCEPT ![i] = afterPriority(@)]
    /\ vlast' = [VOp("view.getDataPriority", i, data)
                   EXCEPT !.prio = getDataPriority(views[i].cls, data, DataInfo(data))]
    /\ UNCHANGED <<currentView, stacked>>
    /\ UNCHANGED roiVars
    /\ UNCHANGED loader

\* CompositeDataView.getBestView(data, info)
GetBestView(data) ==
    /\ views' = afterBestView(views)
    /\ vlast' = [VOp("getBestView", 0, data) EXCEPT !.best = getBestView(views, data)]
    /\ UNCHANGED <<currentView, stacked>>
    /\ UNCHANGED roiVars
    /\ UNCHANGED loader

keepCurrentView(view) == currentView

\* self.__currentView = view
newCurrentView(view) == view

\* CompositeDataView.getDataPriority(data, DataInfo(data))
GetDataPriority(data) ==
    /\ views' = afterBestView(views)
    /\ currentView' = newCurrentView(getBestView(views, data))
    /\ vlast' = [VOp("getDataPriority", 0, data)
                   EXCEPT !.best = getBestView(views, data),
                          !.prio = compositePriority(views, data, DataInfo(data))]
    /\ UNCHANGED stacked
    /\ UNCHANGED roiVars
    /\ UNCHANGED loader

\* CompositeDataView.axesNames(data, DataInfo(data)): view.axesNames on None
\* raises AttributeError, after __currentView is assigned
AxesNames(data) ==
    /\ views' = afterBestView(views)
    /\ currentView' = newCurrentView(getBestView(views, data))
    /\ LET view == getBestView(views, data)
       IN  vlast' = [VOp("axesNames", 0, data)
                       EXCEPT !.best = view,
                              !.names = IF view = 0 THEN <<>> ELSE axesNames(views[view].cls),
                              !.err = IF view = 0 THEN "AttributeError" ELSE "none"]
    /\ UNCHANGED stacked
    /\ UNCHANGED roiVars
    /\ UNCHANGED loader

\* CompositeDataView.customAxisNames()
CustomAxisNames ==
    /\ vlast' = [VOp("customAxisNames", currentView, NoneData)
                   EXCEPT !.names = IF currentView = 0 THEN <<>>
                                    ELSE customAxisNames(views[currentView].cls),
                          !.touched = {currentView} \ {0}]
    /\ UNCHANGED <<views, currentView, stacked>>
    /\ UNCHANGED roiVars
    /\ UNCHANGED loader

\* CompositeDataView.setCustomAxisValue(name, value): _StackView sets the frame
\* number of its widget for 'depth' and raises for any other name; the other
\* views ignore the call
SetCustomAxisValue(name, value) ==
    /\ IF currentView # 0 /\ views[currentView].cls = "_StackView"
       THEN IF name = "depth"
            THEN /\ views' = [views EXCEPT ![currentView] = getWidget(@)]
                 /\ vlast' = [VOp("setCustomAxisValue", currentView, NoneData)
                                EXCEPT !.touched = {currentView}, !.names = <<name>>]
            ELSE /\ views' = views
                 /\ vlast' = [VOp("setCustomAxisValue", currentView, NoneData)
                                EXCEPT !.touched = {currentView}, !.names = <<name>>,
                                       !.err = "Exception"]
       ELSE /\ views' = views
            /\ vlast' = [VOp("setCustomAxisValue", currentView, NoneData)
                           EXCEPT !.touched = {currentView} \ {0}, !.names = <<name>>]
    /\ UNCHANGED <<currentView, stacked>>
    /\ UNCHANGED roiVars
    /\ UNCHANGED loader

\* QStackedWidget.addWidget: the index of the new page; the first page added
\* becomes the current one
addWidget(st) ==
    [st EXCEPT !.count = @ + 1,
               !.currentIndex = IF st.count = 0 THEN 0 ELSE @]

\* CompositeDataView.__updateDisplayedView on the views vs, the stacked widget
\* st and the current view cur (not None): the views and the stacked widget it
\* leaves, and whether it called select() on the current view
updateDisplayedView(vs, st, cur) ==
    LET v == vs[cur]
        st0 == [st EXCEPT !.created = TRUE]
        st1 == IF v.index = None THEN addWidget(st0) ELSE st0
        index == IF v.index = None THEN st0.count ELSE CHOOSE i \in v.index : TRUE
        v1 == IF v.index = None THEN [getWidget(v) EXCEPT !.index = Some(index)] ELSE v
    IN  [views |-> [vs EXCEPT ![cur] = v1],
         stacked |-> [st1 EXCEPT !.currentIndex = index],
         selected |-> st1.currentIndex # index]

\* CompositeDataView.select(): __updateDisplayedView, then select() of the
\* current view
Select ==
    /\ IF currentView = 0
       THEN /\ stacked' = [stacked EXCEPT !.created = TRUE]
            /\ views' = views
            /\ vlast' = VOp("select", 0, NoneData)
       ELSE LET u == updateDisplayedView(views, stacked, currentView)
            IN  /\ stacked' = u.stacked
                /\ views' = u.views
                /\ vlast' = [VOp("select", currentView, NoneData)
                               EXCEPT !.touched = {currentView},
                                      \* the number of select() calls on the view
                                      !.prio = IF u.selected THEN 2 ELSE 1]
    /\ UNCHANGED currentView
    /\ UNCHANGED roiVars
    /\ UNCHANGED loader

\* view.setData(data) on a view that is not composite: every class but
\* _EmptyView hands the data to its widget
viewSetData(v, data) ==
    IF v.cls = "_EmptyView" THEN v
    ELSE [getWidget(v) EXCEPT !.shown = Some(data)]

\* view.clear() on a view that is not composite: every class but _EmptyView
\* clears its widget
viewClear(v) ==
    IF v.cls = "_EmptyView" THEN v
    ELSE [getWidget(v) EXCEPT !.shown = None]

\* the view CompositeDataView.setData hands the data to
setDataView(vs, data) == currentView

\* CompositeDataView.setData(data)
SetData(data) ==
    /\ LET cur == setDataView(views, data)
       IN  IF cur = 0
           THEN /\ UNCHANGED <<views, stacked>>
                /\ vlast' = VOp("setData", 0, data)
           ELSE LET u == updateDisplayedView(views, stacked, cur)
                IN  /\ views' = [u.views EXCEPT ![cur] = viewSetData(@, data)]
                    /\ stacked' = u.stacked
                    /\ vlast' = [VOp("setData", cur, data) EXCEPT !.touched = {cur}]
    /\ UNCHANGED currentView
    /\ UNCHANGED roiVars
    /\ UNCHANGED loader

\* CompositeDataView.clear(): clear() of every registered view
ClearViews ==
    /\ views' = [k \in 1..Len(views) |-> viewClear(views[k])]
    /\ vlast' = [VOp("clear", 0, NoneData) EXCEPT !.touched = 1..Len(views)]
    /\ UNCHANGED <<currentView, stacked>>
    /\ UNCHANGED roiVars
    /\ UNCHANGED loader

\* CompositeDataView.getWidget(): createWidget makes the QStackedWidget
GetWidget ==
    /\ stacked' = [stacked EXCEPT !.created = TRUE]
    /\ vlast' = VOp("getWidget", 0, NoneData)
    /\ UNCHANGED <<views, currentView>>
    /\ UNCHANGED roiVars
    /\ UNCHANGED loader

\* views[i].getWidget(), called on the view itself
ViewGetWidget(i) ==
    /\ i \in 1..Len(views)
    /\ views' = [views EXCEPT ![i] = getWidget(@)]
    /\ vlast' = VOp("view.getWidget", i, NoneData)
    /\ UNCHANGED <<currentView, stacked>>
    /\ UNCHANGED roiVars
    /\ UNCHANGED loader

\* DataInfo(data)
NewDataInfo(data) ==
    /\ vlast' = [VOp("DataInfo", 0, data) EXCEPT !.info = DataInfo(data)]
    /\ UNCHANGED <<views, currentView, stacked>>
    /\ UNCHANGED roiVars
    /\ UNCHANGED loader

PriorityData == Data

\* addView on a composite that has no view yet
AddFirstView(cls, addr) == views = <<>> /\ AddView(cls, addr)

\* the priority of each view class and of the 'Raw' view for each data: a
\* composite holding one view, or constructed as the 'Raw' view
NextPriority ==
    \/ NewRawView
    \/ \E cls \in ViewClasses, addr \in Addrs : AddFirstView(cls, addr)
    \/ \E i \in 1..Len(RawViews), data \in PriorityData : ViewGetDataPriority(i, data)
    \/ \E data \in PriorityData : GetDataPriority(data)

SpecPriority == Init /\ [][NextPriority]_vars

BestClasses == {"_Plot1dView", "_Plot3dView", "_StackView", "_ScalarView"}

BestData ==
    {NoneData,
     mkData("group", "none", <<>>, "None", FALSE),
     mkData("ndarray", "number", <<3>>, "None", FALSE),
     mkData("ndarray", "number", <<2, 2, 2>>, "None", FALSE),
     mkData("ndarray", "number", <<2, 2, 2, 2>>, "None", FALSE)}

\* the choice of the best view among the registered ones
NextBest ==
    \/ NewRawView
    \/ \E cls \in BestClasses, addr \in Addrs : AddView(cls, addr)
    \/ \E data \in BestData : GetBestView(data)

SpecBest == Init /\ [][NextBest]_vars

DispatchClasses == {"_Plot1dView", "_StackView"}

DispatchData ==
    {NoneData,
     mkData("ndarray", "number", <<3>>, "None", FALSE),
     mkData("ndarray", "number", <<2, 2, 2>>, "None", FALSE)}

\* the current view of a composite view: registration, the calls that resolve
\* the current view and the calls forwarded to it
NextDispatch ==
    \/ NewRawView
    \/ \E cls \in DispatchClasses, addr \in Addrs : AddView(cls, addr)
    \/ \E data \in DispatchData : GetDataPriority(data)
    \/ \E data \in DispatchData : AxesNames(data)
    \/ CustomAxisNames
    \/ \E name \in {"depth", "x"} : SetCustomAxisValue(name, 1)
    \/ Select

SpecDispatch == Init /\ [][NextDispatch]_vars

RenderClasses == {"_Plot1dView", "_Hdf5View"}

RenderData ==
    {NoneData,
     mkData("group", "none", <<>>, "None", FALSE),
     mkData("ndarray", "number", <<3>>, "None", FALSE)}

\* the widgets of the views and what they display: registration, the queries,
\* and the calls that show, fill and clear the widgets
NextRender ==
    \/ \E cls \in RenderClasses, addr \in Addrs : AddView(cls, addr)
    \/ \E i \in 1..MaxViews, data \in RenderData : ViewGetDataPriority(i, data)
    \/ \E i \in 1..MaxViews : ViewGetWidget(i)
    \/ \E data \in RenderData : GetDataPriority(data)
    \/ \E data \in RenderData : AxesNames(data)
    \/ \E data \in RenderData : SetData(data)
    \/ ClearViews
    \/ Select
    \/ GetWidget

SpecRender == Init /\ [][NextRender]_vars

\* the variables of the ROI widgets and of the data views
widgetVars == <<heap, plot, activeCurve, markers, roidict, RoiToItems, rows,
                selected, current, activeRoi, showAll, middleFlag, file, last,
                views, currentView, stacked, vlast>>

\* loader.getPlugins(directoryList=directoryList, exceptions=exceptions)
GetPlugins(directoryList, exceptions) ==
    /\ loader' = getPlugins(loader, directoryList, exceptions)
    /\ UNCHANGED widgetVars

\* loader.setPluginDirectoryList(dirlist)
SetPluginDirectoryList(dirlist) ==
    /\ loader' = setPluginDirectoryList(loader, dirlist)
    /\ UNCHANGED widgetVars

\* other code of the process imports the module `name`, which enters
\* sys.modules unless running it raises
ImportModule(m) ==
    /\ ~m.importFails
    /\ m.name \notin loader.sysModules
    /\ loader' = [loader EXCEPT !.sysModules = @ \cup {m.name},
                                !.call = LoaderCall("import", <<m.name>>, FALSE, 0, {},
                                                    "none")]
    /\ UNCHANGED widgetVars

\* the discovery of plugins: the directory list, the modules the process has
\* imported, and the discovery pass
NextPlugins ==
    \/ \E dirs \in DirectoryLists, exceptions \in BOOLEAN : GetPlugins(dirs, exceptions)
    \/ \E dirs \in DirectoryLists : SetPluginDirectoryList(dirs)
    \/ \E d \in DOMAIN Directories : \E k \in 1..Len(Directories[d]) :
           ImportModule(Directories[d][k])

SpecPlugins == Init /\ [][NextPlugins]_vars

\* the information extracted from each data
NextInfo == \E data \in Data : NewDataInfo(data)

SpecInfo == Init /\ [][NextInfo]_vars
-----------------------------------------------------------------------------
(* What the claims expect of the counts *)

\* the sum of y over the samples of the curve with fromdata <= x <= todata
InclusiveWindowSum(curve, fromdata, todata) ==
    sumSeq([k \in 1..Len(curve.x) |->
               IF fromdata <= curve.x[k] /\ curve.x[k] <= todata THEN curve.y[k] ELSE 0])

\* the ROI dictionaries (name, type, from, to) of a collection
CollectionDicts(dict, hp) == {toDict(hp[dict[n]]) : n \in DOMAIN dict}

\* the markers 'show all' mode is to leave: a min and a max marker per ROI
AllRoiMarkers(dict, hp) ==
    LET mins == {nameRoiMin(n) : n \in DOMAIN dict}
        maxs == {nameRoiMax(n) : n \in DOMAIN dict}
    IN  [l \in mins \cup maxs |->
            LET n == CHOOSE m \in DOMAIN dict : l \in {nameRoiMin(m), nameRoiMax(m)}
            IN  IF l = nameRoiMin(n) THEN hp[dict[n]].fromdata ELSE hp[dict[n]].todata]

-----------------------------------------------------------------------------
(* The claims *)

\* C1: in every reachable state the key set of the name-to-ROI mapping
\* (roidict) equals the key set of the name-to-row mapping (_RoiToItems).
C1_SameKeySets == DOMAIN roidict = DOMAIN RoiToItems

\* C2: removeROI(name) leaves both mappings equal to their previous contents
\* minus the entry for name, raises nothing, and removes the row of a known
\* name and no other row.
C2_RemoveROIFrame ==
    [][last'.op = "removeROI" =>
          LET name == last'.name IN
          /\ last'.err = "none"
          /\ roidict' = Del(roidict, name)
          /\ RoiToItems' = Del(RoiToItems, name)
          /\ rows' = IF name \in DOMAIN RoiToItems THEN Del(rows, RoiToItems[name])
                     ELSE rows]_vars

\* C3: after addRoi(roi) the table has one more row, roi.name is a key of
\* both mappings, and the active ROI is the ROI just added.
C3_AddRoiPost ==
    [][last'.op = "addRoi" =>
          LET id == last'.id IN
          /\ Cardinality(DOMAIN rows') = Cardinality(DOMAIN rows) + 1
          /\ heap[id].name \in DOMAIN roidict'
          /\ heap[id].name \in DOMAIN RoiToItems'
          /\ activeRoi' = id]_vars

\* C3 witness: addRoi has returned normally with a second row in the table
C3_Witness ==
    /\ last.op = "addRoi"
    /\ last.err = "none"
    /\ Cardinality(DOMAIN rows) = 2
    /\ activeRoi = last.id
    /\ heap[last.id].name \in DOMAIN roidict \cap DOMAIN RoiToItems

\* C4: after setRois(rois, order) the collection holds exactly the ROIs of
\* rois, and the call is accepted exactly for order in {None, from, to, type}.
C4_SetRoisReplaces ==
    last.op = "setRois" =>
        IF last.name \in Orders
        THEN /\ last.err = "none"
             /\ DOMAIN roidict = {heap[last.rois[k]].name : k \in 1..Len(last.rois)}
             /\ \A n \in DOMAIN roidict : \E k \in 1..Len(last.rois) : roidict[n] = last.rois[k]
        ELSE last.err = "AssertionError"

\* C5: save(filename) followed by load(filename) completes and yields a
\* collection with the names, types, from and to the file holds, which are
\* those of the collection saved; the counts are not carried over.
C5_SaveLoadRoundTrip ==
    (last.op = "load" /\ last.name = "after save") =>
        /\ last.err = "none"
        /\ {[name |-> d.name, type |-> d.type, from |-> d.from, to |-> d.to] : d \in file}
               = CollectionDicts(roidict, heap)
        /\ \A n \in DOMAIN roidict :
               heap[roidict[n]].rawCounts = None /\ heap[roidict[n]].netCounts = None

\* C6: with an active curve, _computeRawAndNetCounts(roi) returns as raw count
\* the sum of y over the samples with fromdata <= x <= todata.
C6_RawIsWindowSum ==
    \A id \in RoiIds :
        (plot = "plot" /\ activeCurve # 0) =>
            LET c == computeRawAndNetCounts(heap, id, plot, activeCurve) IN
            /\ c.err = "none"
            /\ c.raw = Some(InclusiveWindowSum(Curves[activeCurve],
                                               heap[id].fromdata, heap[id].todata))

\* C7: with an active curve, the net count of the spec's example curve is 3
\* for the window [1, 3] (raw 6 minus the flat background 1 + 1 + 1) and 0
\* for the zero-width window [2, 2].
C7_NetIsRawMinusBackground ==
    \A id \in RoiIds :
        (/\ plot = "plot"
         /\ activeCurve = 1
         /\ <<heap[id].fromdata, heap[id].todata>> \in {<<1, 3>>, <<2, 2>>}) =>
            LET c == computeRawAndNetCounts(heap, id, plot, activeCurve)
                expected == IF heap[id].fromdata = 1 THEN 3 ELSE 0
            IN  /\ c.err = "none"
                /\ \E q \in c.net : q[1] = expected * q[2]

\* C8: after addRoi, or after the ROI's change notification, the ROI's row
\* shows the ROI's type, from and to and, with an active curve, the raw count
\* of the ROI's window.
C8_RowShowsCurrentValues ==
    (/\ last.op \in {"addRoi", "sigChanged"}
     /\ last.name \in DOMAIN RoiToItems
     /\ last.name \in DOMAIN roidict
     /\ roidict[last.name] = last.id) =>
        LET roi == heap[last.id]
            row == rows[RoiToItems[last.name]]
        IN  /\ row.Type = roi.type
            /\ row.From = ToString(roi.fromdata)
            /\ row.To = ToString(roi.todata)
            /\ (plot = "plot" /\ activeCurve # 0) =>
                   row.Raw = ToString(InclusiveWindowSum(Curves[activeCurve],
                                                         roi.fromdata, roi.todata))

\* C9: when addRoi computes the counts of the ROI named ICR with an active
\* curve, the ROI's fromdata and todata become the minimum and the maximum x
\* of the curve.
C9_IcrSpansCurve ==
    (/\ last.op = "addRoi"
     /\ last.name = "ICR"
     /\ plot = "plot"
     /\ activeCurve # 0) =>
        LET x == Curves[activeCurve].x IN
        /\ last.err = "none"
        /\ \A k \in 1..Len(x) : heap[last.id].fromdata <= x[k] /\ x[k] <= heap[last.id].todata
        /\ \E k \in 1..Len(x) : heap[last.id].fromdata = x[k]
        /\ \E k \in 1..Len(x) : heap[last.id].todata = x[k]

\* C10: in 'show all' mode, after _updateMarkers the ROI markers of the plot
\* are exactly a '<name> ROI min' marker at fromdata and a '<name> ROI max'
\* marker at todata for every ROI of the collection, with no 'ROI middle'.
C10_ShowAllMarkersExact ==
    (/\ \/ last.op = "showAllMarkers" /\ last.id = 1
        \/ last.op = "currentChanged"
     /\ last.err = "none"
     /\ showAll
     /\ plot = "plot") =>
        markers = AllRoiMarkers(roidict, heap)

\* the markers 'show active only' mode is to leave for the active ROI `roi`:
\* 'ROI min', 'ROI max', and 'ROI middle' halfway when `middle` holds and the
\* ROI is draggable
ActiveRoiMarkersOn(mk, roi, middle) ==
    /\ DOMAIN mk = {"ROI min", "ROI max"}
                     \cup (IF middle /\ roi.draggable THEN {"ROI middle"} ELSE {})
    /\ mk["ROI min"] = roi.fromdata
    /\ mk["ROI max"] = roi.todata
    /\ "ROI middle" \in DOMAIN mk => 2 * mk["ROI middle"] = roi.fromdata + roi.todata

\* C11: in 'show active only' mode with an active ROI, a run of _updateMarkers
\* (after a change of the current row, or after showAllMarkers(False)) ends
\* without error and leaves on the plot exactly 'ROI min' at the active ROI's
\* fromdata and 'ROI max' at its todata, plus 'ROI middle' at
\* 0.5 * (fromdata + todata) when the middle marker flag is set and the active
\* ROI is draggable.
C11_ActiveOnlyMarkers ==
    ( /\ \/ last.op = "currentChanged"
          \/ (last.op = "showAllMarkers" /\ last.id = 1)
      /\ ~showAll
      /\ activeRoi # 0
      /\ plot # "None" )
    => /\ last.err = "none"
       /\ ActiveRoiMarkersOn(markers, heap[activeRoi], middleFlag)

\* C12: a 'markerMoved' notification for the min (resp. max) boundary marker of
\* a ROI at position x ends without error, sets that ROI's fromdata (resp.
\* todata) to x and leaves its other bound and every other ROI unchanged.
C12_BoundaryMarkerMoved ==
    [][ ( /\ last'.op = "markerMoved"
          /\ last'.name \in {"ROI min", "ROI max"}
          /\ activeRoi # 0 )
        => /\ last'.err = "none"
           /\ heap' = IF last'.name = "ROI min"
                      THEN [heap EXCEPT ![activeRoi].fromdata = last'.id]
                      ELSE [heap EXCEPT ![activeRoi].todata = last'.id] ]_vars

\* C13: a 'markerMoved' notification for 'ROI middle' at position x shifts the
\* active ROI's from and to by delta = x - 0.5 * (from + to): the width is
\* unchanged, the new midpoint is x, and 'ROI min' and 'ROI max' are redrawn
\* at the shifted bounds.
C13_MiddleMarkerShifts ==
    [][ ( /\ last'.op = "markerMoved"
          /\ last'.name = "ROI middle"
          /\ activeRoi # 0 )
        => /\ last'.err = "none"
           /\ heap'[activeRoi].todata - heap'[activeRoi].fromdata
                  = heap[activeRoi].todata - heap[activeRoi].fromdata
           /\ heap'[activeRoi].fromdata + heap'[activeRoi].todata = 2 * last'.id
           /\ "ROI min" \in DOMAIN markers' /\ "ROI max" \in DOMAIN markers'
           /\ markers'["ROI min"] = heap'[activeRoi].fromdata
           /\ markers'["ROI max"] = heap'[activeRoi].todata ]_vars
-----------------------------------------------------------------------------
(* What the claims expect of the views *)

\* the priority the view views[k] reports for data
PriorityOf(k, data) == getDataPriority(views[k].cls, data, DataInfo(data))

\* the greatest of the priorities the registered views report for data
MaxPriority(data) ==
    CHOOSE p \in {PriorityOf(k, data) : k \in 1..Len(views)} :
        \A k \in 1..Len(views) : PriorityOf(k, data) <= p

IsRawView ==
    /\ Len(views) = 3
    /\ views[1].cls = "_ScalarView"
    /\ views[2].cls = "_ArrayView"
    /\ views[3].cls = "_RecordView"

\* C14: getDataPriority of every view class, and of the composite 'Raw' view,
\* returns UNSUPPORTED (-1) or a value strictly greater, without raising, and
\* returns UNSUPPORTED for the data None with DataInfo(None).
C14_PriorityIsSentinelOrAbove ==
    vlast.op \in {"view.getDataPriority", "getDataPriority"}
    => /\ vlast.err = "none"
       /\ vlast.prio = UNSUPPORTED \/ vlast.prio > UNSUPPORTED
       /\ vlast.data = NoneData => vlast.prio = UNSUPPORTED

C14_Witness ==
    /\ vlast.op = "getDataPriority"
    /\ IsRawView
    /\ vlast.data = NoneData
    /\ vlast.prio = UNSUPPORTED

\* C15: getBestView returns None when every registered view reports
\* UNSUPPORTED for the data, and otherwise a view whose priority for the data
\* is the greatest among the registered views and is not UNSUPPORTED.
C15_BestViewHasMaxPriority ==
    vlast.op = "getBestView"
    => IF \A k \in 1..Len(views) : PriorityOf(k, vlast.data) = UNSUPPORTED
       THEN vlast.best = 0
       ELSE /\ vlast.best \in 1..Len(views)
            /\ PriorityOf(vlast.best, vlast.data) = MaxPriority(vlast.data)
            /\ PriorityOf(vlast.best, vlast.data) # UNSUPPORTED

C15_Witness ==
    /\ vlast.op = "getBestView"
    /\ Len(views) = 2
    /\ vlast.best = 2
    /\ PriorityOf(1, vlast.data) > UNSUPPORTED
    /\ PriorityOf(1, vlast.data) < PriorityOf(2, vlast.data)

\* C16: when several registered views report the same highest priority for the
\* data, getBestView returns the one that was registered first.
C16_TieKeepsFirstRegistered ==
    (vlast.op = "getBestView" /\ vlast.best # 0)
    => \A k \in 1..Len(views) :
           PriorityOf(k, vlast.data) = PriorityOf(vlast.best, vlast.data)
           => vlast.best <= k

\* the priority the claim C17 gives for the 1D plot view
Plot1dTable(data) ==
    LET info == DataInfo(data)
    IN  CASE ~(info.isArray /\ info.isNumeric /\ info.dim >= 1) -> UNSUPPORTED
          [] info.isArray /\ info.isNumeric /\ info.dim >= 1
             /\ info.interpretation = "spectrum" -> 1000
          [] info.isArray /\ info.isNumeric /\ info.dim = 2
             /\ info.interpretation # "spectrum" /\ info.shape[1] = 1 -> 210
          [] info.isArray /\ info.isNumeric /\ info.dim = 1
             /\ info.interpretation # "spectrum" -> 100
          [] OTHER -> 10

\* C17: the 1D plot view reports UNSUPPORTED unless the data is a numeric
\* array with dim >= 1, and otherwise 1000 for the interpretation 'spectrum',
\* else 210 for dim = 2 with shape[0] = 1, else 100 for dim = 1, else 10.
C17_Plot1dPriorityTable ==
    (vlast.op = "view.getDataPriority" /\ views[vlast.view].cls = "_Plot1dView")
    => vlast.prio = Plot1dTable(vlast.data)

C17_Witness ==
    /\ vlast.op = "view.getDataPriority"
    /\ views[vlast.view].cls = "_Plot1dView"
    /\ vlast.data = mkData("dataset", "number", <<1, 3>>, "spectrum", FALSE)
    /\ vlast.prio = 1000

C19_RawPriorityIsMaxOfChildren ==
    (vlast.op = "getDataPriority" /\ IsRawView)
    => /\ vlast.prio = MaxPriority(vlast.data)
       /\ vlast.prio = UNSUPPORTED
          <=> \A k \in 1..3 : PriorityOf(k, vlast.data) = UNSUPPORTED

C19_Witness ==
    /\ vlast.op = "getDataPriority"
    /\ IsRawView
    /\ vlast.data = mkData("ndarray", "number", <<2, 2>>, "None", FALSE)
    /\ vlast.prio = 50
    /\ currentView = 2

\* C20: the current view of a composite view is None before any call of
\* getDataPriority or axesNames, is after each of these calls the view
\* getBestView gives for the data of the call (None when the data is
\* unsupported), and is left as it is by every other call; select,
\* customAxisNames and setCustomAxisValue act on the current view and leave
\* every other registered view as it was.
C20_CurrentViewFollowsLastQuery ==
    /\ vlast.op = "init" => currentView = 0
    /\ [][ /\ vlast'.op \in {"getDataPriority", "axesNames"}
              => currentView' = getBestView(views, vlast'.data)
           /\ vlast'.op \notin {"getDataPriority", "axesNames"}
              => currentView' = currentView
           /\ vlast'.op \in {"select", "customAxisNames", "setCustomAxisValue"}
              => /\ vlast'.touched = {currentView} \ {0}
                 /\ \A k \in 1..Len(views) : k # currentView => views'[k] = views[k]
         ]_vars

C20_Witness ==
    /\ vlast.op = "select"
    /\ Len(views) = 2
    /\ currentView = 2
    /\ vlast.touched = {2}
    /\ views[2].index # None
    /\ views[1].index # None

\* C21: setData(d) on a composite view resolves the best view for d, makes it
\* the current view and hands d to it, also when the last getDataPriority or
\* axesNames call was made with another data.
C21_SetDataResolvesBestView ==
    [][ vlast'.op = "setData"
        => LET best == getBestView(views, vlast'.data)
           IN  /\ vlast'.err = "none"
               /\ currentView' = best
               /\ best # 0 => views'[best].shown = Some(vlast'.data)
               /\ \A k \in 1..Len(views) :
                      k # best => views'[k].shown = views[k].shown ]_vars

\* C22: for a data that no registered view supports, getDataPriority returns
\* UNSUPPORTED and axesNames returns, both without an exception, and a setData
\* or select that follows raises nothing and leaves every view as it was.
C22_UnsupportedDataNeverRaises ==
    [][ /\ ( /\ vlast'.op \in {"getDataPriority", "axesNames"}
             /\ getBestView(views, vlast'.data) = 0 )
           => /\ vlast'.err = "none"
              /\ vlast'.op = "getDataPriority" => vlast'.prio = UNSUPPORTED
        /\ ( /\ vlast.op \in {"getDataPriority", "axesNames"}
             /\ vlast.best = 0
             /\ vlast'.op \in {"setData", "select"} )
           => /\ vlast'.err = "none"
              /\ views' = views ]_vars

\* C23: the widget of a view is made by createWidget at most once, stays once
\* it is made, and is made by no priority query (getDataPriority of the view,
\* getDataPriority or axesNames of the composite holding it).
C23_WidgetMadeOnRequestOnly ==
    [][ \A k \in 1..Len(views) :
            /\ views'[k].widgets <= 1
            /\ views[k].widgets <= views'[k].widgets
            /\ vlast'.op \in {"view.getDataPriority", "getDataPriority", "axesNames"}
               => views'[k].widgets = views[k].widgets ]_vars

\* C24: the DataInfo of every data has dim = len(shape), and isArray only with
\* dim >= 1, also for an array of no dimension.
C24_ArrayHasDimension ==
    vlast.op = "DataInfo"
    => /\ vlast.info.dim = Len(vlast.info.shape)
       /\ vlast.info.isArray => vlast.info.dim >= 1

\* C25: DataInfo(None) raises nothing and has isArray, isNumeric, isRecord and
\* isNXdata False, interpretation None, shape () and dim 0.
C25_DataInfoOfNone ==
    (vlast.op = "DataInfo" /\ vlast.data = NoneData)
    => /\ vlast.err = "none"
       /\ ~vlast.info.isArray
       /\ ~vlast.info.isNumeric
       /\ ~vlast.info.isRecord
       /\ ~vlast.info.isNXdata
       /\ vlast.info.interpretation = "None"
       /\ vlast.info.shape = <<>>
       /\ vlast.info.dim = 0

C25_Witness ==
    /\ vlast.op = "DataInfo"
    /\ vlast.data = NoneData
    /\ vlast.info.dim = 0
    /\ ~vlast.info.isArray

\* the plugin modules of the directories dirs whose target function returns
LoadablePlugins(dirs) ==
    UNION {{Directories[dirs[i]][k].name : k \in 1..Len(Directories[dirs[i]])}
              \cap {n \in ModuleNames :
                      \E k \in 1..Len(Directories[dirs[i]]) :
                          /\ Directories[dirs[i]][k].name = n
                          /\ Directories[dirs[i]][k].isPlugin
                          /\ ~Directories[dirs[i]][k].callFails}
           : i \in 1..Len(dirs)}

\* C26: a getPlugins pass over existing directories lets no exception escape,
\* also when a plugin module fails to import or to instantiate: the other
\* plugin modules of the directories are loaded, and the call returns the
\* number of loaded plugins.
C26_DiscoveryCollectsFailures ==
    ( /\ loader.call.op = "getPlugins"
      /\ loader.call.dirs # <<>>
      /\ \A i \in 1..Len(loader.call.dirs) : loader.call.dirs[i] \in DOMAIN Directories )
    => /\ loader.call.err = "none"
       /\ loader.call.count = Len(loader.pluginInstanceDict)
       /\ \A n \in LoadablePlugins(loader.call.dirs) : inDict(loader, n)

\* C27: after the Reset button, whatever ROIs existed before, the collection
\* holds exactly one ROI, named 'ICR' and of type 'Default', in a single row.
C27_ResetLeavesOnlyICR ==
    last.op = "_reset" =>
        /\ last.err = "none"
        /\ DOMAIN roidict = {"ICR"}
        /\ heap[roidict["ICR"]].type = "Default"
        /\ Cardinality(DOMAIN rows) = 1
        /\ \A r \in DOMAIN rows : rows[r].ROI = "ICR"

\* C28: after any sequence of Add and Delete, the Add button succeeds: it
\* creates a ROI under a name no ROI of the collection has ('ICR' when the
\* collection is empty, 'newroi N' otherwise), and the collection grows by
\* exactly that ROI.
C28_AddCreatesFreshName ==
    [][last'.op = "_add" =>
          /\ last'.err = "none"
          /\ last'.name \notin DOMAIN roidict
          /\ DOMAIN roidict' = DOMAIN roidict \cup {last'.name}
          /\ Cardinality(DOMAIN rows') = Cardinality(DOMAIN rows) + 1
          /\ IF DOMAIN roidict = {} THEN last'.name = "ICR"
             ELSE \E i \in 1..MaxObjects : last'.name = newroiName(i)]_vars

\* C29: in every state reached by addRoi, removeROI, deleteActiveRoi, setRois,
\* clear, setActiveRoi and the selection of a row, the active ROI is None or
\* one of the ROIs of the collection; a removed ROI is not the active one.
C29_ActiveRoiInCollection ==
    activeRoi = 0 \/ \E n \in DOMAIN roidict : roidict[n] = activeRoi

\* C30: after additions, removals and a redraw of the markers, every
\* '<name> ROI min' and '<name> ROI max' marker of the plot is the marker of a
\* ROI of the collection: none is left of a removed ROI.
C30_NoMarkerOfRemovedRoi ==
    (/\ \/ last.op = "showAllMarkers" /\ last.id = 1
        \/ last.op = "currentChanged"
     /\ last.err = "none"
     /\ plot = "plot") =>
        \A n \in RoiNames :
            (nameRoiMin(n) \in DOMAIN markers \/ nameRoiMax(n) \in DOMAIN markers)
                => n \in DOMAIN roidict
====
